---- MODULE Spec2Model ----
(***************************************************************************)
(* showRepo.py: load a "--"-separated repositories file, sort / filter /   *)
(* truncate the rows, print them as a table, copy the urls to the          *)
(* clipboard and save the table to a file.                                 *)
(*                                                                         *)
(* A Python str is a sequence of one-character strings; an ANSI escape     *)
(* code is one element of such a sequence.  A row is a sequence of str, a  *)
(* table a sequence of rows.  A text file is the sequence of its lines     *)
(* (without the line terminators).                                         *)
(***************************************************************************)
EXTENDS Integers, Sequences, FiniteSets, TLC

VARIABLES
  pc,         \* the statement of main() that runs next
  argc,       \* len(sys.argv)
  flags,      \* the Namespace parse_args returns
  fs,         \* the files: path -> Absent, a text file, or a saved table
  table,      \* printable_data_table / filtered_printable_data_table
  elements,   \* what create_table_elements returned
  terminal,   \* the table printed on the terminal
  clipboard,  \* the text copied to the clipboard
  log,        \* the messages printed, in order
  stats,      \* the statistics printed by --show-stats
  exit_code,  \* the exit status of the process
  probe       \* successive results of a function applied on its own

vars ==
  <<pc, argc, flags, fs, table, elements, terminal, clipboard, log, stats, exit_code, probe>>

(***************************************************************************)
(* Bounds of the model.                                                    *)
(***************************************************************************)
\* lines of a repositories file taken from Corpus
MaxLines == 3
\* options given together on one command line
MaxFlags == 2
\* largest N given to --first / --last
MaxN == 3
\* tokens making up one line of a file read by the loader alone
MaxLineTokens == 3
\* lines of a file read by the loader alone
MaxLoadLines == 2
\* tokens making up one url / one repository name
MaxParts == 3
\* rows of a table whose names are stripped repeatedly
MaxRows == 2

(***************************************************************************)
(* Python values.                                                          *)
(***************************************************************************)
\* an option that was not given on the command line (argparse default None)
None == [none |-> TRUE]
Some(v) == [some |-> v]

\* truth value of an optional str / int flag: None, "" and 0 are falsy
TruthyStr(o) == o # None /\ o.some # <<>>
TruthyInt(o) == o # None /\ o.some # 0

\* printable ASCII in code point order, from 32 (space) to 126 (~); code point
\* 96 is written GRAVE
Printable ==
  << " ", "!", "\"", "#", "$", "%", "&", "'", "(", ")", "*", "+", ",", "-", ".", "/",
     "0", "1", "2", "3", "4", "5", "6", "7", "8", "9", ":", ";", "<", "=", ">", "?",
     "@", "A", "B", "C", "D", "E", "F", "G", "H", "I", "J", "K", "L", "M", "N", "O",
     "P", "Q", "R", "S", "T", "U", "V", "W", "X", "Y", "Z", "[", "\\", "]", "^", "_",
     "GRAVE", "a", "b", "c", "d", "e", "f", "g", "h", "i", "j", "k", "l", "m", "n", "o",
     "p", "q", "r", "s", "t", "u", "v", "w", "x", "y", "z", "{", "|", "}", "~" >>

\* ord(c) for the characters of the model
Ord(c) ==
  IF c = "\n" THEN 10
  ELSE IF c = "\t" THEN 9
  ELSE 31 + (CHOOSE i \in 1..Len(Printable) : Printable[i] = c)

\* str < str: lexicographic on code points, a proper prefix is smaller
RECURSIVE StrLess(_, _)
StrLess(a, b) ==
  IF b = <<>> THEN FALSE
  ELSE IF a = <<>> THEN TRUE
  ELSE IF Head(a) = Head(b) THEN StrLess(Tail(a), Tail(b))
  ELSE Ord(Head(a)) < Ord(Head(b))

\* str.lower() on one character
LowerChar(c) ==
  IF c \in {"\n", "\t"} THEN c
  ELSE LET o == Ord(c) IN IF o >= 65 /\ o <= 90 THEN Printable[o - 31 + 32] ELSE c

\* str.lower()
Lower(s) == [i \in 1..Len(s) |-> LowerChar(s[i])]

\* characters removed by str.strip()
Whitespace == {" ", "\t", "\n"}

RECURSIVE LStrip(_)
LStrip(s) == IF s # <<>> /\ Head(s) \in Whitespace THEN LStrip(Tail(s)) ELSE s

RECURSIVE RStrip(_)
RStrip(s) ==
  IF s # <<>> /\ s[Len(s)] \in Whitespace THEN RStrip(SubSeq(s, 1, Len(s) - 1)) ELSE s

\* str.strip()
Strip(s) == RStrip(LStrip(s))

\* s starts with the non-empty str sep
StartsWith(s, sep) == Len(s) >= Len(sep) /\ SubSeq(s, 1, Len(sep)) = sep

\* needle in hay
RECURSIVE Contains(_, _)
Contains(needle, hay) ==
  \/ StartsWith(hay, needle)
  \/ hay # <<>> /\ Contains(needle, Tail(hay))

\* str.split(sep): cut at the leftmost, non-overlapping occurrences of sep
RECURSIVE SplitFrom(_, _, _)
SplitFrom(s, sep, cur) ==
  IF s = <<>> THEN <<cur>>
  ELSE IF StartsWith(s, sep)
       THEN <<cur>> \o SplitFrom(SubSeq(s, Len(sep) + 1, Len(s)), sep, <<>>)
       ELSE SplitFrom(Tail(s), sep, Append(cur, Head(s)))

Split(s, sep) == SplitFrom(s, sep, <<>>)

\* concatenation of a sequence of str
RECURSIVE Concat(_)
Concat(ss) == IF ss = <<>> THEN <<>> ELSE Head(ss) \o Concat(Tail(ss))

\* sep.join(ss)
RECURSIVE Join(_, _)
Join(sep, ss) ==
  IF ss = <<>> THEN <<>>
  ELSE IF Len(ss) = 1 THEN ss[1]
  ELSE ss[1] \o sep \o Join(sep, Tail(ss))

\* all sequences over S of length at most n
SeqsUpTo(S, n) == UNION {[1..k -> S] : k \in 0..n}

(***************************************************************************)
(* Inputs of the model.                                                    *)
(***************************************************************************)
\* values given to --search, --only-language and --only-os
S_ZETA == <<"Z", "E", "T", "A">>
S_AL == <<"a", "l">>
S_GIT == <<"g", "i", "t">>
S_GO_UP == <<"G", "O">>
S_JAVA == <<"j", "a", "v", "a">>
S_L == <<"L">>
S_ANY == <<"a", "n", "y">>
S_WINDOWS == <<"W", "i", "n", "d", "o", "w", "s">>
S_W_NL == <<"w", "\n">>
S_ZZZ == <<"z", "z", "z">>

\* lines of repositories files: well formed ones, a name without '/', a
\* description that holds the separator, an empty line
Line1 ==
  <<"h", "1", ".", "g", "i", "t", " ", "-", "-", " ", "c", "y", "/", "z", "e", "t", "a", " ", "-", "-", " ", "L", "i", "n", "u", "x", " ", "-", "-", " ", "G", "o", " ", "-", "-", " ", "c", "l", "i">>
Line2 ==
  <<"h", "2", ".", "g", "i", "t", " ", "-", "-", " ", "a", "l", "/", "y", "o", " ", "-", "-", " ", "W", "i", "n", "d", "o", "w", "s", " ", "-", "-", " ", "g", "o", " ", "-", "-", " ", "x">>
Line3 ==
  <<"h", "3", " ", "-", "-", " ", "b", "o", "b", "/", "b", "/", "c", " ", "-", "-", " ", "A", "n", "y", " ", "-", "-", " ", "G", "o", " ", "-", "-", " ", "a", "l">>
Line4 ==
  <<"h", "4", ".", "g", "i", "t", " ", "-", "-", " ", "s", "o", "l", "o", " ", "-", "-", " ", "L", "i", "n", "u", "x", " ", "-", "-", " ", "C", " ", "-", "-", " ", "g", "o">>
Line5 ==
  <<"h", "5", ".", "g", "i", "t", " ", "-", "-", " ", "d", "d", "/", "w", " ", "-", "-", " ", "A", "n", "y", " ", "-", "-", " ", "G", "o", " ", "-", "-", " ", "d", " ", "-", "-", " ", "z", "e", "t", "a">>
Line6 == <<>>

Corpus == <<Line1, Line2, Line3, Line4, Line5, Line6>>

\* the files of the model: at most MaxLines consecutive lines of Corpus
Files ==
  {<<>>} \cup
  {ls \in {SubSeq(Corpus, i, j) : i \in 1..Len(Corpus), j \in 1..Len(Corpus)} :
     Len(ls) <= MaxLines}

(***************************************************************************)
(* Tables.                                                                 *)
(***************************************************************************)
\* row[i] of Python (0-based) exists
HasCol(row, i) == Len(row) > i
\* row[i] of Python (0-based)
Col(row, i) == row[i + 1]

\* t[:n]
SliceTo(t, n) ==
  IF n >= 0 THEN SubSeq(t, 1, IF n < Len(t) THEN n ELSE Len(t))
  ELSE SubSeq(t, 1, Len(t) + n)

\* t[n:]
SliceFrom(t, n) ==
  IF n >= 0 THEN SubSeq(t, n + 1, Len(t))
  ELSE SubSeq(t, (IF Len(t) + n < 0 THEN 0 ELSE Len(t) + n) + 1, Len(t))

\* sorted(): insertion of index j after every index whose key is not larger
RECURSIVE InsertIdx(_, _, _)
InsertIdx(idx, j, keys) ==
  IF idx = <<>> THEN <<j>>
  ELSE IF StrLess(keys[j], keys[Head(idx)]) THEN <<j>> \o idx
  ELSE <<Head(idx)>> \o InsertIdx(Tail(idx), j, keys)

RECURSIVE SortIdx(_, _)
SortIdx(n, keys) == IF n = 0 THEN <<>> ELSE InsertIdx(SortIdx(n - 1, keys), n, keys)

\* sorted(t, key=...) for the keys of the rows of t: stable, ascending
Sorted(t, keys) == LET p == SortIdx(Len(t), keys) IN [i \in 1..Len(t) |-> t[p[i]]]

\* number of i with P[i]
RECURSIVE CountTrue(_)
CountTrue(bs) ==
  IF bs = <<>> THEN 0 ELSE (IF Head(bs) THEN 1 ELSE 0) + CountTrue(Tail(bs))

(***************************************************************************)
(* Command line.                                                           *)
(***************************************************************************)
Paths == {"repositories.txt", "out.txt"}

\* the Namespace of a command line without options
DefaultFlags ==
  [ filename |-> "repositories.txt", search |-> None, only_language |-> None,
    only_os |-> None, copy |-> FALSE, output |-> None, first |-> None, last |-> None,
    table_format |-> "grid", no_author |-> FALSE, sort_by_author |-> FALSE,
    sort_by_repo |-> FALSE, sort_by_language |-> FALSE, show_stats |-> FALSE,
    no_color |-> FALSE ]

\* the options of the model, in the order of their declaration
FlagNames ==
  << "search", "only_language", "only_os", "copy", "output", "first", "last",
     "no_author", "sort_by_author", "sort_by_repo", "sort_by_language", "show_stats",
     "no_color" >>

\* the values given to an option
FlagValues(name) ==
  CASE name = "search" ->
         {Some(v) : v \in {<<>>, S_ZETA, S_AL, S_GIT}}
    [] name = "only_language" ->
         {Some(v) : v \in {<<>>, S_GO_UP, S_JAVA}}
    [] name = "only_os" ->
         {Some(v) : v \in {<<>>, S_L, S_ANY, S_WINDOWS, S_W_NL, S_ZZZ}}
    [] name = "output" -> {Some(p) : p \in Paths}
    [] name \in {"first", "last"} -> {Some(n) : n \in (0 - 1)..MaxN}
    [] OTHER -> {TRUE}

\* the Namespaces with the options FlagNames[i..] given or not, at most k given
RECURSIVE FlagsFrom(_, _)
FlagsFrom(i, k) ==
  IF i > Len(FlagNames) THEN {DefaultFlags}
  ELSE FlagsFrom(i + 1, k) \cup
       (IF k = 0 THEN {}
        ELSE {[f EXCEPT ![FlagNames[i]] = v] :
                f \in FlagsFrom(i + 1, k - 1), v \in FlagValues(FlagNames[i])})

\* what parse_args returns
FlagSpace == FlagsFrom(1, MaxFlags)


Absent == [absent |-> TRUE]
\* a text file holding the lines ls
TextFile(ls) == [lines |-> ls]

(***************************************************************************)
(* delete_git_extension                                                    *)
(***************************************************************************)
S_DOT_GIT == <<".", "g", "i", "t">>

\* a delete_git_extension that cuts the last 4 characters of every url
delete_git_extension_unchecked(url) == SliceTo(url, 0 - 4)

\* the url copied for a row: without its last 4 characters when they are ".git"
delete_git_extension(url) ==
  IF SliceFrom(url, 0 - 4) = S_DOT_GIT THEN SliceTo(url, 0 - 4) ELSE url

\* delete_git_extension prints a warning
delete_git_warns(url) == SliceFrom(url, 0 - 4) # S_DOT_GIT

(***************************************************************************)
(* read_columns_in_repository_file                                         *)
(***************************************************************************)
S_SEP == <<"-", "-">>

\* the row of one line: line.strip().split("--"), every column stripped
RowOfLine(line) ==
  LET row == Split(Strip(line), S_SEP) IN [j \in 1..Len(row) |-> Strip(row[j])]

\* a loader that skips the lines that are empty once stripped
RECURSIVE ReadRowsSkippingEmpty(_)
ReadRowsSkippingEmpty(ls) ==
  IF ls = <<>> THEN <<>>
  ELSE (IF Strip(Head(ls)) = <<>> THEN <<>> ELSE <<RowOfLine(Head(ls))>>)
       \o ReadRowsSkippingEmpty(Tail(ls))

\* rows: one col appended for every line of the file
ReadRows(ls) == [i \in 1..Len(ls) |-> RowOfLine(ls[i])]

(***************************************************************************)
(* filter_data_table.  The function is a sequence of steps over            *)
(*   s = [st, tbl, log, clip, stats]                                       *)
(* st: "ok" while the function runs, "exit" after sys.exit(1), "crash"     *)
(* after an exception nobody catches; tbl: printable_data_table; log: the  *)
(* messages printed; clip: the clipboard; stats: the statistics printed.   *)
(***************************************************************************)
Msg(s, m) == [s EXCEPT !.log = Append(@, m)]
Exit(s, m) == [s EXCEPT !.st = "exit", !.log = Append(@, m)]
Crash(s, exc) == [s EXCEPT !.st = "crash", !.log = Append(@, exc)]

\* sorted(printable_data_table, key=lambda x: x[1])
SortByAuthor(f, s) ==
  IF s.st # "ok" \/ ~f.sort_by_author THEN s
  ELSE IF \E i \in 1..Len(s.tbl) : ~HasCol(s.tbl[i], 1) THEN Crash(s, "IndexError")
  ELSE [s EXCEPT !.tbl = Sorted(s.tbl, [i \in 1..Len(s.tbl) |-> Col(s.tbl[i], 1)])]

\* sorted(printable_data_table, key=lambda x: x[3])
SortByLanguage(f, s) ==
  IF s.st # "ok" \/ ~f.sort_by_language THEN s
  ELSE LET w == IF TruthyStr(f.only_language) THEN Msg(s, "warn: sort-by-language and only-language")
                ELSE s
       IN IF \E i \in 1..Len(s.tbl) : ~HasCol(s.tbl[i], 3) THEN Crash(w, "IndexError")
          ELSE [w EXCEPT !.tbl = Sorted(s.tbl, [i \in 1..Len(s.tbl) |-> Col(s.tbl[i], 3)])]

\* x[1].split('/')[1] raises for the row
RepoKeyRaises(row) == ~HasCol(row, 1) \/ Len(Split(Col(row, 1), <<"/">>)) < 2
\* x[1].split('/')[1]
RepoKey(row) == Split(Col(row, 1), <<"/">>)[2]

\* what the except clause of the sort by repository name does: it prints
\* through the name flag_var, which filter_data_table does not define
SortByRepoFails(s) == Crash(s, "NameError")

\* sorted(printable_data_table, key=lambda x: x[1].split('/')[1])
SortByRepo(f, s) ==
  IF s.st # "ok" \/ ~f.sort_by_repo THEN s
  ELSE LET w == Msg(s, "warn: multiple sort flags")
       IN IF \E i \in 1..Len(s.tbl) : RepoKeyRaises(s.tbl[i]) THEN SortByRepoFails(w)
          ELSE [w EXCEPT !.tbl = Sorted(s.tbl, [i \in 1..Len(s.tbl) |-> RepoKey(s.tbl[i])])]

\* rows[3].lower() == flags_var.only_language.lower()
LanguageMatches(f, row) == Lower(Col(row, 3)) = Lower(f.only_language.some)

FilterLanguage(f, s) ==
  IF s.st # "ok" \/ ~TruthyStr(f.only_language) THEN s
  ELSE IF \E i \in 1..Len(s.tbl) : ~HasCol(s.tbl[i], 3) THEN Crash(s, "IndexError")
  ELSE LET LM(row) == LanguageMatches(f, row)
           temp == SelectSeq(s.tbl, LM)
       IN IF Len(temp) = 0 THEN Exit(s, "error: no results for language")
          ELSE [s EXCEPT !.tbl = temp]

\* the columns the search looks into: every one but 0, 2 and 3
SearchedCols(row) == {n \in 0..(Len(row) - 1) : n \notin {0, 2, 3}}

\* some searched column of the row holds the word
SearchMatches(f, row) ==
  \E n \in SearchedCols(row) : Contains(Lower(f.search.some), Lower(Col(row, n)))

FilterSearch(f, s) ==
  IF s.st # "ok" \/ ~TruthyStr(f.search) THEN s
  ELSE LET SM(row) == SearchMatches(f, row)
           temp == SelectSeq(s.tbl, SM)
       IN IF Len(temp) = 0 THEN Exit(s, "error: word not found")
          ELSE [s EXCEPT !.tbl = temp]

\* re.match(r"^word$" or r"^w$", v, re.IGNORECASE) for the first letter w of
\* word: "$" matches at the end and before a newline that ends the string
OsPatternMatches(word, v) ==
  LET full(x) == Lower(x) = word \/ Lower(x) = SubSeq(word, 1, 1)
  IN \/ full(v)
     \/ v # <<>> /\ v[Len(v)] = "\n" /\ full(SubSeq(v, 1, Len(v) - 1))

S_OS_WINDOWS == <<"W", "i", "n", "d", "o", "w", "s">>
S_OS_LINUX == <<"L", "i", "n", "u", "x">>
S_OS_ANY == <<"A", "n", "y">>

\* only_os_var: None when no pattern matches
OnlyOsVar(v) ==
  IF OsPatternMatches(Lower(S_OS_WINDOWS), v) THEN Some(S_OS_WINDOWS)
  ELSE IF OsPatternMatches(Lower(S_OS_LINUX), v) THEN Some(S_OS_LINUX)
  ELSE IF OsPatternMatches(Lower(S_OS_ANY), v) THEN Some(S_OS_ANY)
  ELSE None

FilterOs(f, s) ==
  IF s.st # "ok" \/ ~TruthyStr(f.only_os) THEN s
  ELSE LET os == OnlyOsVar(f.only_os.some)
       IN IF os = None THEN Exit(s, "warn: not a valid value for only-os")
          ELSE IF \E i \in 1..Len(s.tbl) : ~HasCol(s.tbl[i], 2) THEN Crash(s, "IndexError")
          ELSE LET OM(row) == Col(row, 2) = os.some /\ os.some # <<>>
                   temp == SelectSeq(s.tbl, OM)
               IN IF Len(temp) = 0 THEN Exit(s, "error: no items found for OS")
                  ELSE [s EXCEPT !.tbl = temp]

\* the step of --first
FirstRows(f, s) ==
  IF s.st # "ok" \/ ~TruthyInt(f.first) THEN s
  ELSE IF f.first.some > Len(s.tbl) THEN Msg(s, "warn: unable to show first rows")
  ELSE [s EXCEPT !.tbl = SliceTo(s.tbl, f.first.some)]

\* the step of --last
LastRows(f, s) ==
  IF s.st # "ok" \/ ~TruthyInt(f.last) THEN s
  ELSE LET w == IF TruthyInt(f.first) THEN Msg(s, "warn: first and last") ELSE s
       IN IF ~TruthyInt(f.first) /\ f.last.some > Len(s.tbl)
          THEN Msg(w, "warn: unable to show last rows")
          ELSE [w EXCEPT !.tbl = SliceFrom(s.tbl, (0 - 1) * f.last.some)]

\* a strip that keeps everything after the first '/'
StripAuthorKeepingRest(name) ==
  LET parts == Split(name, <<"/">>)
  IN IF Len(parts) >= 2 THEN Join(<<"/">>, Tail(parts)) ELSE name

\* row[1].split('/')[1], or the name as it is when that raises
StripAuthor(name) ==
  LET parts == Split(name, <<"/">>) IN IF Len(parts) >= 2 THEN parts[2] ELSE name

\* the row with its name stripped; a row without a name is left alone
NoAuthorRow(row) ==
  IF HasCol(row, 1) THEN [row EXCEPT ![2] = StripAuthor(row[2])] ELSE row

\* the loop of --no-author over the table
NoAuthorTable(t) == [i \in 1..Len(t) |-> NoAuthorRow(t[i])]

NoAuthor(f, s) ==
  IF s.st # "ok" \/ ~f.no_author THEN s ELSE [s EXCEPT !.tbl = NoAuthorTable(s.tbl)]

\* the warnings of delete_git_extension for the rows of t, in order
RECURSIVE GitWarnings(_)
GitWarnings(t) ==
  IF t = <<>> THEN <<>>
  ELSE (IF delete_git_warns(Col(Head(t), 0)) THEN <<"warn: unable to cut .git">> ELSE <<>>)
       \o GitWarnings(Tail(t))

\* the step of --copy
Copy(f, s) ==
  IF s.st # "ok" \/ ~f.copy THEN s
  ELSE IF Len(s.tbl) = 0 THEN Exit(s, "error: repository list is empty")
  ELSE IF Len(s.tbl) = 1
       THEN [s EXCEPT !.log = (@ \o <<"repository copied">>) \o GitWarnings(s.tbl),
                      !.clip = Some(delete_git_extension(Col(s.tbl[1], 0)))]
       ELSE [s EXCEPT !.log = (@ \o GitWarnings(s.tbl)) \o <<"multiple repositories copied">>,
                      !.clip = Some(Join(<<"\n">>,
                                 [i \in 1..Len(s.tbl) |-> delete_git_extension(Col(s.tbl[i], 0))]))]

\* get_percentage, in tenths of a percent
get_percentage(number, total) == (2000 * number + total) \div (2 * total)

\* number of rows of t whose OS column is os
OsCount(t, os) == CountTrue([i \in 1..Len(t) |-> Col(t[i], 2) = os])

\* what stats_table_elements prints for t
stats_table_elements(t) ==
  [ languages |-> Cardinality({Lower(Col(t[i], 3)) : i \in 1..Len(t)}),
    any |-> OsCount(t, S_OS_ANY), linux |-> OsCount(t, S_OS_LINUX),
    windows |-> OsCount(t, S_OS_WINDOWS),
    any_percentage |-> get_percentage(OsCount(t, S_OS_ANY), Len(t)),
    linux_percentage |-> get_percentage(OsCount(t, S_OS_LINUX), Len(t)),
    windows_percentage |-> get_percentage(OsCount(t, S_OS_WINDOWS), Len(t)) ]

\* the step of --show-stats; n is original_length_table
ShowStats(f, n, s) ==
  IF s.st # "ok" \/ ~f.show_stats THEN s
  ELSE LET w == IF Len(s.tbl) < n THEN Msg(s, "repositories after applying filters") ELSE s
       IN IF \E i \in 1..Len(s.tbl) : ~HasCol(s.tbl[i], 3) THEN Crash(w, "IndexError")
          ELSE IF Len(s.tbl) = 0 THEN Crash(w, "ZeroDivisionError")
          ELSE [w EXCEPT !.stats = Some([rows |-> Len(s.tbl)] @@ stats_table_elements(s.tbl))]

\* the state filter_data_table starts in
FilterStart(t) == [st |-> "ok", tbl |-> t, log |-> <<>>, clip |-> None, stats |-> None]

\* the sorts
Sorts(f, s) == SortByRepo(f, SortByLanguage(f, SortByAuthor(f, s)))
\* the filters, after the sorts
Filters(f, s) == FilterOs(f, FilterSearch(f, FilterLanguage(f, s)))
\* the truncation, after the filters
Truncation(f, s) == LastRows(f, FirstRows(f, s))
\* the table before the truncation step
BeforeTruncation(f, t) == Filters(f, Sorts(f, FilterStart(t)))

\* a filter_data_table that truncates before it filters
filter_data_table_truncating_first(f, t) ==
  ShowStats(f, Len(t),
            Copy(f, NoAuthor(f, Filters(f, Truncation(f, Sorts(f, FilterStart(t)))))))

\* filter_data_table(flags_var, printable_data_table)
filter_data_table(f, t) ==
  ShowStats(f, Len(t), Copy(f, NoAuthor(f, Truncation(f, BeforeTruncation(f, t)))))

(***************************************************************************)
(* create_table_elements, print_table, save_file                           *)
(***************************************************************************)
\* shutil.get_terminal_size()[0] of a process without a terminal
TerminalWidth == 80

S_REPOSITORY_NAME ==
  <<"R", "e", "p", "o", "s", "i", "t", "o", "r", "y", " ", "N", "a", "m", "e">>
S_REPO_NAME == <<"R", "e", "p", "o", " ", "N", "a", "m", "e">>
S_OS == <<"O", "S">>
S_LANGUAGE == <<"L", "a", "n", "g", "u", "a", "g", "e">>
S_DESCRIPTION == <<"D", "e", "s", "c", "r", "i", "p", "t", "i", "o", "n">>

\* headers_table
headers_table == <<S_REPOSITORY_NAME, S_OS, S_LANGUAGE, S_DESCRIPTION>>

\* the ANSI escape codes of colors, each one element of a str
AnsiCodes ==
  {"ESC[30m", "ESC[31m", "ESC[32m", "ESC[33m", "ESC[34m", "ESC[35m", "ESC[36m",
   "ESC[37m", "ESC[1;30m", "ESC[1;31m", "ESC[1;32m", "ESC[1;33m", "ESC[1;34m",
   "ESC[1;35m", "ESC[1;36m", "ESC[0m"}

\* f"{colors[c]}{text}{colors['NC']}"
Colored(code, text) == (<<code>> \o text) \o <<"ESC[0m">>

\* colors_headers_table
colors_headers_table ==
  << Colored("ESC[1;36m", S_REPO_NAME), Colored("ESC[1;35m", S_OS),
     Colored("ESC[1;31m", S_LANGUAGE), Colored("ESC[1;32m", S_DESCRIPTION) >>

\* the maximum of a set of naturals, 0 for the empty set
Max0(S) == IF S = {} THEN 0 ELSE CHOOSE m \in S : \A n \in S : n <= m

\* create_table_elements(flags_var, width_terminal, printable_data_rows_table)
create_table_elements(f, width, t) ==
  LET table_to_show == [i \in 1..Len(t) |-> SliceFrom(t[i], 1)]
      max_length ==
        Max0({Len(table_to_show[i][1]) + Len(table_to_show[i][2])
                + Len(table_to_show[i][3]) + 12 : i \in 1..Len(t)})
      max_allowed_length == (width - max_length) - 12
  IN IF \E i \in 1..Len(t) : ~HasCol(table_to_show[i], 2) THEN [st |-> "crash"]
     ELSE IF f.no_color
          THEN [st |-> "ok", headers |-> headers_table, body |-> table_to_show,
                max_allowed_length |-> max_allowed_length]
     ELSE IF \E i \in 1..Len(t) : ~HasCol(table_to_show[i], 3) THEN [st |-> "crash"]
     ELSE [st |-> "ok", headers |-> colors_headers_table,
           body |-> [i \in 1..Len(t) |->
                       << Colored("ESC[36m", table_to_show[i][1]),
                          Colored("ESC[35m", table_to_show[i][2]),
                          Colored("ESC[31m", table_to_show[i][3]),
                          Colored("ESC[32m", table_to_show[i][4]) >>],
           max_allowed_length |-> max_allowed_length]

\* tabulate(body, headers=..., tablefmt=..., maxcolwidths=[None, None, None, w]):
\* the text is a function of the arguments of the call, which stand for it
tabulate(body, headers, tablefmt, w) ==
  [body |-> body, headers |-> headers, tablefmt |-> tablefmt,
   maxcolwidths |-> <<None, None, None, Some(w)>>]

\* the table save_file renders: body_table is the table main passes to it
saved_table(f, body_table, w) == tabulate(body_table, headers_table, f.table_format, w)

(***************************************************************************)
(* main                                                                    *)
(***************************************************************************)
Init ==
  /\ pc = "check_arguments"
  /\ flags \in FlagSpace
  /\ argc \in {1, 2}
  /\ argc = 1 => flags = DefaultFlags
  /\ fs \in {[p \in Paths |-> IF p = "repositories.txt" THEN c ELSE Absent] :
               c \in {Absent} \cup {TextFile(ls) : ls \in Files}}
  /\ table = <<>>
  /\ elements = None
  /\ terminal = None
  /\ clipboard = None
  /\ log = <<>>
  /\ stats = None
  /\ exit_code = None
  /\ probe = <<>>

\* check_arguments, then parse_args
CheckArguments ==
  /\ pc = "check_arguments"
  /\ IF argc > 1
     THEN pc' = "check_file" /\ UNCHANGED <<log, exit_code>>
     ELSE /\ pc' = "exit"
          /\ log' = Append(log, "no arguments provided")
          /\ exit_code' = Some(1)
  /\ UNCHANGED <<argc, flags, fs, table, elements, terminal, clipboard, stats, probe>>

\* check_file_to_read
CheckFileToRead ==
  /\ pc = "check_file"
  /\ IF fs[flags.filename] = Absent
     THEN /\ pc' = "exit"
          /\ log' = Append(log, "error: file does not exist")
          /\ exit_code' = Some(1)
     ELSE pc' = "read" /\ UNCHANGED <<log, exit_code>>
  /\ UNCHANGED <<argc, flags, fs, table, elements, terminal, clipboard, stats, probe>>

\* read_columns_in_repository_file
ReadColumns ==
  /\ pc = "read"
  /\ table' = ReadRows(fs[flags.filename].lines)
  /\ log' = IF flags.show_stats THEN Append(log, "total number of repositories") ELSE log
  /\ pc' = "filter"
  /\ UNCHANGED <<argc, flags, fs, elements, terminal, clipboard, stats, exit_code, probe>>

\* filter_data_table
FilterDataTable ==
  /\ pc = "filter"
  /\ LET s == filter_data_table(flags, table)
     IN /\ table' = s.tbl
        /\ log' = log \o s.log
        /\ clipboard' = s.clip
        /\ stats' = s.stats
        /\ pc' = IF s.st = "ok" THEN "create" ELSE s.st
        /\ exit_code' = IF s.st = "ok" THEN exit_code ELSE Some(1)
  /\ UNCHANGED <<argc, flags, fs, elements, terminal, probe>>

\* create_table_elements
CreateTableElements ==
  /\ pc = "create"
  /\ LET e == create_table_elements(flags, TerminalWidth, table)
     IN IF e.st = "ok"
        THEN elements' = Some(e) /\ pc' = "print" /\ UNCHANGED <<log, exit_code>>
        ELSE /\ pc' = "crash"
             /\ log' = Append(log, "IndexError")
             /\ exit_code' = Some(1)
             /\ UNCHANGED elements
  /\ UNCHANGED <<argc, flags, fs, table, terminal, clipboard, stats, probe>>

\* print_table
PrintTable ==
  /\ pc = "print"
  /\ terminal' = Some(tabulate(elements.some.body, elements.some.headers,
                               flags.table_format, elements.some.max_allowed_length))
  /\ pc' = "save"
  /\ UNCHANGED <<argc, flags, fs, table, elements, clipboard, log, stats, exit_code, probe>>

\* save_file, then the end of main
SaveFile ==
  /\ pc = "save"
  /\ fs' = IF flags.output = None \/ flags.output.some = ""
           THEN fs
           ELSE [fs EXCEPT ![flags.output.some] =
                   [text |-> saved_table(flags, table, elements.some.max_allowed_length)]]
  /\ pc' = "done"
  /\ exit_code' = Some(0)
  /\ UNCHANGED <<argc, flags, table, elements, terminal, clipboard, log, stats, probe>>

Next ==
  \/ CheckArguments
  \/ CheckFileToRead
  \/ ReadColumns
  \/ FilterDataTable
  \/ CreateTableElements
  \/ PrintTable
  \/ SaveFile

Spec == Init /\ [][Next]_vars

(***************************************************************************)
(* read_columns_in_repository_file on its own, for files of any lines.     *)
(***************************************************************************)
LineTokens == {<<"a">>, <<"-", "-">>, <<" ">>}

\* the lines made of at most MaxLineTokens tokens
LoadLines == {Concat(ts) : ts \in SeqsUpTo(LineTokens, MaxLineTokens)}

InitLoad ==
  /\ pc = "read"
  /\ argc = 2
  /\ flags \in {DefaultFlags, [DefaultFlags EXCEPT !.show_stats = TRUE]}
  /\ fs \in {[p \in Paths |-> IF p = "repositories.txt" THEN TextFile(ls) ELSE Absent] :
               ls \in SeqsUpTo(LoadLines, MaxLoadLines)}
  /\ table = <<>>
  /\ elements = None
  /\ terminal = None
  /\ clipboard = None
  /\ log = <<>>
  /\ stats = None
  /\ exit_code = None
  /\ probe = <<>>

NextLoad == ReadColumns

SpecLoad == InitLoad /\ [][NextLoad]_vars

(***************************************************************************)
(* delete_git_extension applied to its own result.                         *)
(***************************************************************************)
UrlTokens == {<<"h">>, S_DOT_GIT, <<".">>, <<"g", "i", "t">>}

\* the urls made of at most MaxParts tokens
Urls == {Concat(ts) : ts \in SeqsUpTo(UrlTokens, MaxParts)}

InitGit ==
  /\ pc = "delete_git_extension"
  /\ argc = 2
  /\ flags = [DefaultFlags EXCEPT !.copy = TRUE]
  /\ fs = [p \in Paths |-> Absent]
  /\ table = <<>>
  /\ elements = None
  /\ terminal = None
  /\ clipboard = None
  /\ log = <<>>
  /\ stats = None
  /\ exit_code = None
  /\ probe \in {<<u>> : u \in Urls}

\* one more call of delete_git_extension, on the result of the last one
ApplyDeleteGit ==
  /\ pc = "delete_git_extension"
  /\ Len(probe) < 3
  /\ probe' = Append(probe, delete_git_extension(probe[Len(probe)]))
  /\ log' = IF delete_git_warns(probe[Len(probe)])
            THEN Append(log, "warn: unable to cut .git") ELSE log
  /\ UNCHANGED <<pc, argc, flags, fs, table, elements, terminal, clipboard, stats, exit_code>>

NextGit == ApplyDeleteGit

SpecGit == InitGit /\ [][NextGit]_vars

(***************************************************************************)
(* The --no-author loop applied to its own result.                         *)
(***************************************************************************)
NameTokens == {<<"a">>, <<"b">>, <<"/">>}

\* the names made of at most MaxParts tokens
Names == {Concat(ts) : ts \in SeqsUpTo(NameTokens, MaxParts)}

\* rows with a name, and the row of an empty line, which has none
ProbeRows == {<<<<"u">>, n, S_OS_ANY, <<"C">>, <<"d">>>> : n \in Names} \cup {<< <<>> >>}

InitNoAuthor ==
  /\ pc = "no_author"
  /\ argc = 2
  /\ flags = [DefaultFlags EXCEPT !.no_author = TRUE]
  /\ fs = [p \in Paths |-> Absent]
  /\ table = <<>>
  /\ elements = None
  /\ terminal = None
  /\ clipboard = None
  /\ log = <<>>
  /\ stats = None
  /\ exit_code = None
  /\ probe \in {<<t>> : t \in SeqsUpTo(ProbeRows, MaxRows)}

\* one more pass of the --no-author loop, over the table the last one left
ApplyNoAuthor ==
  /\ pc = "no_author"
  /\ Len(probe) < 3
  /\ probe' = Append(probe, NoAuthor(flags, FilterStart(probe[Len(probe)])).tbl)
  /\ UNCHANGED <<pc, argc, flags, fs, table, elements, terminal, clipboard, log, stats,
                 exit_code>>

NextNoAuthor == ApplyNoAuthor

SpecNoAuthor == InitNoAuthor /\ [][NextNoAuthor]_vars

(***************************************************************************)
(* Properties.                                                             *)
(***************************************************************************)
\* the rows read from the repositories file (while the file is a text file)
InputRows == ReadRows(fs["repositories.txt"].lines)

\* filter_data_table has returned, main goes on
Filtered == pc = "create"

\* the process is over
Over == pc \in {"done", "exit", "crash"}

\* m was printed
Logged(m) == \E i \in 1..Len(log) : log[i] = m

\* every row has the five columns of a well formed line
WellFormed(t) == \A i \in 1..Len(t) : Len(t[i]) = 5

\* C1: when --first F and --last L are both given (F, L >= 1), the table
\* filter_data_table returns is the one it returns for --first F alone, and the
\* warning about the two options is printed.
C1_FirstWinsOverLast ==
  (/\ Filtered
   /\ flags.first # None /\ flags.last # None
   /\ flags.first.some >= 1 /\ flags.last.some >= 1)
  => /\ table = filter_data_table([flags EXCEPT !.last = None], InputRows).tbl
     /\ Logged("warn: first and last")

\* C2: with --first N and no --last, the truncation step returns the first N
\* rows of the table it is given when N <= len(table), and the whole table
\* plus a warning when N > len(table), for every integer N.
C2_FirstN ==
  (Filtered /\ flags.first # None /\ flags.last = None /\ ~flags.no_author)
  => LET before == BeforeTruncation(flags, InputRows).tbl
         N == flags.first.some
     IN IF N <= Len(before)
        THEN table = [i \in 1..N |-> before[i]]
        ELSE table = before /\ Logged("warn: unable to show first rows")

\* the rows of t that the filters given in flags keep, one filter after the other
KeptByLanguage(t) ==
  IF TruthyStr(flags.only_language)
  THEN LET P(row) == HasCol(row, 3) /\ Lower(Col(row, 3)) = Lower(flags.only_language.some)
       IN SelectSeq(t, P)
  ELSE t
NameOrDescriptionHolds(q, row) ==
  \/ HasCol(row, 1) /\ Contains(Lower(q), Lower(Col(row, 1)))
  \/ HasCol(row, 4) /\ Contains(Lower(q), Lower(Col(row, 4)))
KeptBySearch(t) ==
  IF TruthyStr(flags.search)
  THEN LET P(row) == NameOrDescriptionHolds(flags.search.some, row) IN SelectSeq(t, P)
  ELSE t
ValidOsWords ==
  { <<"a">>, <<"l">>, <<"w">>, <<"a", "n", "y">>, <<"l", "i", "n", "u", "x">>,
    <<"w", "i", "n", "d", "o", "w", "s">> }
OsOfWord(w) ==
  IF w[1] = "a" THEN S_OS_ANY ELSE IF w[1] = "l" THEN S_OS_LINUX ELSE S_OS_WINDOWS
KeptByOs(t) ==
  IF TruthyStr(flags.only_os) /\ Lower(flags.only_os.some) \in ValidOsWords
  THEN LET P(row) == HasCol(row, 2) /\ Col(row, 2) = OsOfWord(Lower(flags.only_os.some))
       IN SelectSeq(t, P)
  ELSE t

\* the rows of t in which the search finds the word, if a word is searched
LeftBySearch(t) ==
  IF TruthyStr(flags.search)
  THEN LET P(row) == SearchMatches(flags, row) IN SelectSeq(t, P)
  ELSE t

\* a filter that is applied leaves no row
SomeFilterLeavesNothing ==
  \/ TruthyStr(flags.only_language) /\ KeptByLanguage(InputRows) = <<>>
  \/ TruthyStr(flags.search) /\ LeftBySearch(KeptByLanguage(InputRows)) = <<>>
  \/ /\ TruthyStr(flags.only_os) /\ Lower(flags.only_os.some) \in ValidOsWords
     /\ KeptByOs(LeftBySearch(KeptByLanguage(InputRows))) = <<>>

\* the value given to --only-os is none of a, l, w, any, linux, windows
InvalidOsValue == flags.only_os # None /\ Lower(flags.only_os.some) \notin ValidOsWords

\* no table printed, nothing copied, no file written
NoOutput ==
  /\ terminal = None
  /\ clipboard = None
  /\ \A p \in Paths : "text" \notin DOMAIN fs[p]

\* C3: when a filter leaves no row, or the value of --only-os is not a valid
\* one, the process ends with exit code 1 and no table is printed, nothing is
\* copied and no file is written.
C3_FatalBeforeOutput ==
  (/\ pc \notin {"check_arguments", "check_file", "read", "filter"}
   /\ \/ InvalidOsValue
      \/ "lines" \in DOMAIN fs["repositories.txt"] /\ SomeFilterLeavesNothing)
  => /\ NoOutput
     /\ Over /\ exit_code = Some(1)

\* the row passes every filter that is applied
PassesFilters(row) ==
  /\ TruthyStr(flags.only_language) => HasCol(row, 3) /\ LanguageMatches(flags, row)
  /\ TruthyStr(flags.search) => SearchMatches(flags, row)
  /\ TruthyStr(flags.only_os) =>
       HasCol(row, 2) /\ Some(Col(row, 2)) = OnlyOsVar(flags.only_os.some)

\* the sorted rows of the file that pass the filters
SortedAndKept == SelectSeq(Sorts(flags, FilterStart(InputRows)).tbl, PassesFilters)

\* the urls of the rows of t, as --copy puts them on the clipboard
CopiedText(t) == Join(<<"\n">>, [i \in 1..Len(t) |-> delete_git_extension(Col(t[i], 0))])

\* t is in ascending order of language, rows of one language in ascending
\* order of name
OrderedByLanguageThenName(t) ==
  \A i \in 1..Len(t) : \A j \in 1..Len(t) :
    i < j => \/ StrLess(Col(t[i], 3), Col(t[j], 3))
             \/ Col(t[i], 3) = Col(t[j], 3) /\ ~StrLess(Col(t[j], 1), Col(t[i], 1))

\* C4: the steps run in the order sorts, filters, truncation, no-author strip,
\* copy, stats: the table returned is the truncation of the sorted rows that
\* pass the filters (stripped with --no-author), the sort by language comes
\* after the sort by author, and --copy and --show-stats work on that table.
C4_PipelineOrder ==
  Filtered =>
    LET truncated == Truncation(flags, FilterStart(SortedAndKept)).tbl
    IN /\ table = IF flags.no_author THEN NoAuthorTable(truncated) ELSE truncated
       /\ (flags.sort_by_author /\ flags.sort_by_language /\ ~flags.sort_by_repo
             /\ ~flags.no_author) => OrderedByLanguageThenName(table)
       /\ flags.copy => clipboard = Some(CopiedText(table))
       /\ flags.show_stats =>
            /\ stats # None
            /\ stats.some.rows = Len(table)
            /\ stats.some.linux = Len(SelectSeq(table, LAMBDA r : Col(r, 2) = S_OS_LINUX))

\* the filters removed a row that stands before the N-th kept one, and --first N
\* cut the kept rows
C4_Witness ==
  /\ Filtered
  /\ TruthyInt(flags.first) /\ flags.last = None
  /\ flags.first.some >= 1 /\ flags.first.some < Len(SortedAndKept)
  /\ table = SubSeq(SortedAndKept, 1, flags.first.some)
  /\ table # SelectSeq(SubSeq(InputRows, 1, flags.first.some), PassesFilters)

\* the name of the row holds no '/'
NameWithoutSlash(row) == HasCol(row, 1) /\ ~Contains(<<"/">>, Col(row, 1))

\* C5: with --sort-by-repo and a name without '/', the sort fails softly: the
\* order of the rows is left as it is, a warning is printed and the function
\* goes on with the filters, the truncation and the output.
C5_SortByRepoFailsSoftly ==
  (/\ pc \in {"create", "exit", "crash"}
   /\ "lines" \in DOMAIN fs["repositories.txt"]
   /\ flags.sort_by_repo
   /\ WellFormed(InputRows)
   /\ \E i \in 1..Len(InputRows) : NameWithoutSlash(InputRows[i]))
  => /\ pc # "crash"
     /\ Logged("warn: unable to sort")
     /\ (Filtered /\ DefaultFlags = [flags EXCEPT !.sort_by_repo = FALSE]) => table = InputRows

\* the str without its ANSI escape codes
Uncolored(str) == SelectSeq(str, LAMBDA c : c \notin AnsiCodes)
\* the body of a table without its ANSI escape codes
UncoloredBody(body) ==
  [i \in 1..Len(body) |-> [j \in 1..Len(body[i]) |-> Uncolored(body[i][j])]]

\* C6: the table written to the --output file is the uncolored rendering of
\* the table printed on the terminal: the same rows of four columns under the
\* four headers, with the same width limit on the description column.
C6_SavedTableIsPrintedTable ==
  (pc = "done" /\ flags.output # None)
  => LET saved == fs[flags.output.some].text
         shown == terminal.some
     IN /\ saved.body = UncoloredBody(shown.body)
        /\ \A i \in 1..Len(saved.body) : Len(saved.body[i]) = 4
        /\ saved.headers = headers_table
        /\ saved.maxcolwidths = shown.maxcolwidths

\* the lines of the file read by the loader
InputLines == fs["repositories.txt"].lines

\* the str without its whitespace
WithoutWhitespace(str) == SelectSeq(str, LAMBDA c : c \notin Whitespace)

\* C7 (as stated): the loader returns one row for every non-empty line, so the
\* number of rows is the number of non-empty lines of the file.
C7_OneRowPerNonEmptyLine ==
  pc = "filter" => Len(table) = Cardinality({i \in 1..Len(InputLines) : InputLines[i] # <<>>})

\* C7 (amended): the loader returns one row for every line of the file, the
\* empty ones included, in the order of the file: the number of rows is the
\* number of lines, and the columns of row i, joined by the separator, are
\* line i up to whitespace.
C7_OneRowPerLine ==
  pc = "filter" =>
    /\ Len(table) = Len(InputLines)
    /\ \A i \in 1..Len(table) :
         /\ Len(table[i]) >= 1
         /\ WithoutWhitespace(Join(S_SEP, table[i])) = WithoutWhitespace(InputLines[i])

\* a file with an empty line and a line of two columns was loaded
C7_Witness ==
  /\ pc = "filter"
  /\ Len(table) = 2
  /\ InputLines[1] = <<>> /\ table[1] = << <<>> >>
  /\ Len(table[2]) = 2

\* C8: the search keeps, in order, exactly the rows whose name or description
\* holds the word (case-insensitive), whatever the number of columns of the rows.
C8_SearchNameOrDescription ==
  (/\ Filtered
   /\ TruthyStr(flags.search)
   /\ ~TruthyStr(flags.only_language) /\ ~TruthyStr(flags.only_os)
   /\ ~TruthyInt(flags.first) /\ ~TruthyInt(flags.last) /\ ~flags.no_author)
  => table = KeptBySearch(Sorts(flags, FilterStart(InputRows)).tbl)

\* C9 (as stated): delete_git_extension is idempotent.
C9_StripIdempotent == Len(probe) = 3 => probe[3] = probe[2]

\* the str ends with ".git.git"
EndsWithGitGit(url) == SliceFrom(url, 0 - 8) = S_DOT_GIT \o S_DOT_GIT

\* C9 (amended): delete_git_extension applied twice gives what it gives applied
\* once for every url that does not end with ".git.git"; for a url that does,
\* the second call cuts one more ".git".
C9_StripIdempotentUnlessGitGit ==
  (pc = "delete_git_extension" /\ Len(probe) = 3) =>
    IF EndsWithGitGit(probe[1])
    THEN probe[3] # probe[2] /\ probe[3] \o S_DOT_GIT = probe[2]
    ELSE probe[3] = probe[2]

\* a url that ends with ".git" once went through the two calls
C9_Witness ==
  /\ pc = "delete_git_extension"
  /\ Len(probe) = 3
  /\ probe[1] = probe[2] \o S_DOT_GIT
  /\ probe[3] = probe[2]

\* C10: the --no-author strip is idempotent: a second pass over the table
\* leaves every name as the first pass made it.
C10_NoAuthorIdempotent ==
  (pc = "no_author" /\ Len(probe) = 3) => probe[3] = probe[2]

\* a name with several '/' went through the two passes and was cut by the first
C10_Witness ==
  /\ pc = "no_author"
  /\ Len(probe) = 3
  /\ \E i \in 1..Len(probe[1]) :
       /\ HasCol(probe[1][i], 1)
       /\ Len(Split(Col(probe[1][i], 1), <<"/">>)) >= 3
       /\ Col(probe[2][i], 1) # Col(probe[1][i], 1)

\* C11: no step of an invocation writes to the repositories file: whatever the
\* options, the path given to --output included, the file named by --filename
\* holds after every step what it held before it.
C11_InputFileNeverWritten == [][fs'[flags.filename] = fs[flags.filename]]_vars

====
